---- MODULE Spec2Model ----
(***************************************************************************)
(* AnalyQuizz backend: syllabus upload, quiz generation through an AI      *)
(* text service with a deterministic fallback, quiz scoring, and feedback  *)
(* generation, over four document collections.                             *)
(*                                                                         *)
(* Handlers are async coroutines      on one event loop whose database    *)
(* calls are synchronous: a handler runs atomically except at the awaited  *)
(* AI call, where it suspends and other requests run.  generate_quiz and   *)
(* generate_feedback are therefore two actions each (call / resume); every *)
(* other handler is one action.                                            *)
(* Accounts, tokens and the database connection are modelled as well; the  *)
(* dependency get_current_user is a plain function run on worker threads,  *)
(* so its first use of the connection is stepped.                          *)
(***************************************************************************)
EXTENDS Integers, Sequences, FiniteSets, Bags, TLC

VARIABLES
    syllabi,        \* db.syllabi, in insertion (natural) order
    quizzes,        \* db.quizzes
    quiz_results,   \* db.quiz_results
    feedback,       \* db.feedback
    files,          \* the upload directories: storage path -> content
    now,            \* datetime.utcnow(), in whole seconds
    next_id,        \* the next ObjectId the database hands out
    pending,        \* bag of requests suspended at the awaited AI call
    last,           \* the response of the request that completed last
    users,          \* db.users
    email_index,    \* the unique index on users.email exists in the database
    client,         \* utils.database.client, the module global
    db,             \* utils.database.db, the module global
    clients,        \* the MongoClient objects constructed so far
    environ         \* os.environ: JWT_ACCESS_TOKEN_EXPIRE_MINUTES

\* the accounts and the connection, which the handlers of the syllabus, quiz
\* and feedback routers leave as they are
process == <<users, email_index, client, db, clients, environ>>

vars == <<syllabi, quizzes, quiz_results, feedback, files, now, next_id, pending, last,
          users, email_index, client, db, clients, environ>>

----------------------------------------------------------------------------
(* Bounds of the model *)

MaxDocs == 5        \* documents ever inserted (ObjectIds handed out)
MaxPending == 2     \* requests suspended at the AI call at one time
MaxCount == 2       \* largest num_questions requested
MaxReply == 2       \* most items in an AI quiz reply
MaxTime == 1        \* last clock second
MaxTextLen == 52    \* longest text an extractor yields, in characters

(* Program constants *)

TimeLimit == 30

----------------------------------------------------------------------------
(* Input domains *)

Users == {"u1", "u2"}

Difficulties == {"easy", "hard"}

\* num_questions is an unconstrained int of the request model
NumQuestions == -1 .. MaxCount

Min(a, b) == IF a <= b THEN a ELSE b
Max(a, b) == IF a >= b THEN a ELSE b

SeqsUpTo(S, n) == UNION {[1..k -> S] : k \in 0..n}

Range(s) == {s[i] : i \in DOMAIN s}

----------------------------------------------------------------------------
(* Identifiers.  An id travels in requests and in stored references as a   *)
(* string; ObjectId(s) parses 24 hex digits in either letter case and      *)
(* raises on anything else; str(oid) prints lower-case hex.                *)

InvalidId == 0

Malformed == [oid |-> 0, form |-> "malformed"]

\* the strings a client may send for the ids handed out so far and the next
IdStrings == [oid : 1..Min(next_id, MaxDocs), form : {"lower", "upper"}] \cup {Malformed}

ObjectId(s) == IF s.form = "malformed" THEN InvalidId ELSE s.oid

str(oid) == [oid |-> oid, form |-> "lower"]

----------------------------------------------------------------------------
(* Collections *)

NoDoc == [_id |-> 0]

Found(d) == d._id # 0

\* collection.find_one(filter): the first matching document in natural order
find_one(coll, Match(_)) ==
    LET hits == {i \in 1..Len(coll) : Match(coll[i])}
    IN  IF hits = {} THEN NoDoc
        ELSE coll[CHOOSE i \in hits : \A j \in hits : i <= j]

\* collection.find(filter) as the list of matches in natural order
find(coll, Match(_)) == SelectSeq(coll, Match)

\* collection.delete_many(filter) / delete_one(filter)
delete_many(coll, Match(_)) == find(coll, LAMBDA d : ~Match(d))

CanInsert == next_id <= MaxDocs

\* .sort(field, -1): descending by the field; documents with equal values
\* are kept in insertion order
sort_desc(coll, field) ==
    LET before(i) == {j \in DOMAIN coll :
                        \/ coll[j][field] > coll[i][field]
                        \/ coll[j][field] = coll[i][field] /\ j < i}
    IN [k \in DOMAIN coll |-> coll[CHOOSE i \in DOMAIN coll : Cardinality(before(i)) = k - 1]]

\* count_documents
count_documents(coll, matching) == Cardinality({i \in DOMAIN coll : coll[i] \in matching})

----------------------------------------------------------------------------
(* Responses.  A response records the request it answers and, for a request *)
(* that went through the awaited AI call, the exchange that came back.      *)

NoExchange == [why |-> "none"]

NoRequest == [none |-> TRUE]

NoResponse ==
    [op |-> "none", user |-> "none", request |-> NoRequest, exchange |-> NoExchange,
     status |-> 0, body |-> [detail |-> "none"]]

HTTPException(op, u, code, detail) ==
    [op |-> op, user |-> u, request |-> NoRequest, exchange |-> NoExchange,
     status |-> code, body |-> [detail |-> detail]]

OK(op, u, request, body) ==
    [op |-> op, user |-> u, request |-> request, exchange |-> NoExchange,
     status |-> 200, body |-> body]

\* the response of a request p resumed with exchange x
After(p, x, response) == [response EXCEPT !.request = p.request, !.exchange = x]

----------------------------------------------------------------------------
(* Rationals, for the score: Python computes it in floating point; the     *)
(* model keeps the exact quotient, in lowest terms.                        *)

RECURSIVE Gcd(_, _)
Gcd(a, b) == IF b = 0 THEN a ELSE Gcd(b, a % b)

Rat(n, d) == LET g == Gcd(n, d) IN [num |-> n \div g, den |-> d \div g]

RInt(n) == [num |-> n, den |-> 1]

RMulInt(r, k) == Rat(r.num * k, r.den)

RAddInt(r, k) == Rat(r.num + k * r.den, r.den)

RGeq(r, k) == r.num >= k * r.den

RLt(r, k) == r.num < k * r.den

RMin(r, k) == IF RLt(r, k) THEN r ELSE RInt(k)

RMax(r, k) == IF RGeq(r, k) THEN r ELSE RInt(k)

----------------------------------------------------------------------------
(* utils/llm_client.py: the AI text service *)

\* What the HTTPS exchange with the service can come to.  A reply text is
\* [open, json, close]: optional markdown fence around a payload.
GeminiFailures ==
    {"no_api_key", "timeout", "request_error", "bad_status",
     "no_candidates", "unexpected_structure"}

Fences == {"", "FENCE_JSON", "FENCE"}

Exchange(why, text) == [why |-> why, text |-> text]

NoText == [open |-> "", json |-> [t |-> "invalid"], close |-> ""]

\* call_gemini_api: raises on every failure of the exchange, else returns
\* the text of the first candidate
call_gemini_api(x) ==
    IF x.why = "no_api_key" THEN [raises |-> TRUE, error |-> "LLM_API_KEY environment variable is not set"]
    ELSE IF x.why = "timeout" THEN [raises |-> TRUE, error |-> "Gemini API request timed out"]
    ELSE IF x.why = "request_error" THEN [raises |-> TRUE, error |-> "Gemini API request failed"]
    ELSE IF x.why = "bad_status" THEN [raises |-> TRUE, error |-> "Gemini API call failed with status"]
    ELSE IF x.why = "no_candidates" THEN [raises |-> TRUE, error |-> "No candidates in response"]
    ELSE IF x.why = "unexpected_structure" THEN [raises |-> TRUE, error |-> "Unexpected response structure"]
    ELSE [raises |-> FALSE, text |-> x.text]

\* strip(); drop a leading json code fence; drop a trailing code fence; strip()
clean_response(text) ==
    [open  |-> IF text.open = "FENCE_JSON" THEN "" ELSE text.open,
     json  |-> text.json,
     close |-> ""]

\* json.loads: raises unless the cleaned text is exactly one JSON value
json_loads(cleaned) ==
    IF cleaned.open # "" \/ cleaned.close # "" \/ cleaned.json.t = "invalid"
    THEN [raises |-> TRUE]
    ELSE [raises |-> FALSE, value |-> cleaned.json]

RequiredQuestionKeys == {"question", "options", "correct_answer"}

\* the validation loop without its third check
QuestionOK_NoMembership(q) ==
    /\ {"question", "options", "correct_answer"} \subseteq DOMAIN q
    /\ Len(q.options) = 4

\* the three checks of the validation loop on one item of the reply
QuestionOK(q) ==
    /\ RequiredQuestionKeys \subseteq DOMAIN q
    /\ Len(q.options) = 4
    /\ q.correct_answer \in Range(q.options)

ValidatedQuestion(q) ==
    [question |-> q.question, options |-> q.options, correct_answer |-> q.correct_answer]

\* validated_questions[:num_questions], with Python's slice semantics
SlicePrefix(s, n) ==
    IF n >= 0 THEN SubSeq(s, 1, Min(n, Len(s)))
    ELSE SubSeq(s, 1, Max(Len(s) + n, 0))

ConceptOption(difficulty) == "Concept related to " \o difficulty \o " level understanding"

FallbackQuestionText(i) ==
    "Based on the syllabus content, which of the following is most relevant to the topic discussed? (Question "
        \o ToString(i + 1) \o ")"

\* generate_fallback_questions: range(num_questions) placeholder questions
generate_fallback_questions(num_questions, difficulty) ==
    [k \in 1..Max(num_questions, 0) |->
        [question |-> FallbackQuestionText(k - 1),
         options |-> <<ConceptOption(difficulty),
                       "Basic principle from the syllabus material",
                       "Advanced topic requiring deeper knowledge",
                       "Fundamental concept from the course content">>,
         correct_answer |-> ConceptOption(difficulty)]]

\* the try block, were the reply cut to num_questions items before the
\* validation loop instead of after it
ParsedQuestions_SliceFirst(x, num_questions) ==
    LET r == call_gemini_api(x) IN
    IF r.raises THEN [raises |-> TRUE]
    ELSE LET j == json_loads(clean_response(r.text)) IN
         IF j.raises THEN [raises |-> TRUE]
         ELSE IF j.value.t # "array" THEN [raises |-> TRUE]
         ELSE LET items == SlicePrefix(j.value.items, num_questions) IN
              IF \E i \in 1..Len(items) : ~QuestionOK(items[i])
              THEN [raises |-> TRUE]
              ELSE [raises |-> FALSE,
                    questions |-> [i \in 1..Len(items) |-> ValidatedQuestion(items[i])]]

\* the try block of generate_quiz_questions: [raises, questions]
ParsedQuestions(x, num_questions) ==
    LET r == call_gemini_api(x) IN
    IF r.raises THEN [raises |-> TRUE]
    ELSE LET j == json_loads(clean_response(r.text)) IN
         IF j.raises THEN [raises |-> TRUE]
         ELSE IF j.value.t # "array" THEN [raises |-> TRUE]
         ELSE IF \E i \in 1..Len(j.value.items) : ~QuestionOK(j.value.items[i])
              THEN [raises |-> TRUE]
         ELSE [raises |-> FALSE,
               questions |-> SlicePrefix(
                   [i \in 1..Len(j.value.items) |-> ValidatedQuestion(j.value.items[i])],
                   num_questions)]

\* generate_quiz_questions without its except clause
generate_quiz_questions_NoCatch(x, num_questions, difficulty) ==
    LET p == ParsedQuestions(x, num_questions) IN
    IF p.raises THEN [raises |-> TRUE, questions |-> <<>>] ELSE p

\* generate_quiz_questions: [raises, questions]; "except Exception" replaces
\* any exception of the try block by the fallback questions
generate_quiz_questions(x, num_questions, difficulty) ==
    LET p == ParsedQuestions(x, num_questions) IN
    IF p.raises
    THEN [raises |-> FALSE,
          questions |-> generate_fallback_questions(num_questions, difficulty)]
    ELSE p

\* Items an AI quiz reply is built from: JSON objects whose options value is
\* an array of strings.
QuizItems ==
    { [question |-> "Q1", options |-> <<"a", "b", "c", "d">>, correct_answer |-> "a",
       explanation |-> "why"],
      [question |-> "Q2", options |-> <<"", "b", "c", "d">>, correct_answer |-> ""],
      [question |-> "Q3", options |-> <<"a", "b", "c", "d">>],
      [question |-> "Q4", options |-> <<"a", "b", "c">>, correct_answer |-> "a"],
      [question |-> "Q5", options |-> <<"a", "b", "c", "d", "e">>, correct_answer |-> "a"],
      [question |-> "Q6", options |-> <<"a", "b", "c", "d">>, correct_answer |-> "e"] }

QuizPayloads ==
    {[t |-> "invalid"], [t |-> "object"]}
        \cup {[t |-> "array", items |-> s] : s \in SeqsUpTo(QuizItems, MaxReply)}

Plain(j) == [open |-> "", json |-> j, close |-> ""]

\* the ways a reply wraps its payload in a markdown code fence
Fenced(j) == {[open |-> o, json |-> j, close |-> c] : o \in Fences, c \in {"", "FENCE"}}

QuizExchanges ==
    {Exchange(w, NoText) : w \in GeminiFailures}
        \cup {Exchange("ok", Plain(j)) : j \in QuizPayloads}
        \cup {Exchange("ok", t) : t \in Fenced([t |-> "array", items |-> <<>>])}

----------------------------------------------------------------------------
(* utils/llm_client.py: feedback analysis *)

required_fields ==
    <<"overall_analysis", "strengths", "weaknesses", "topic_wise_performance",
      "recommendations", "study_plan">>

\* format(score, ".1f"): the score in tenths, rounded half to even
Tenths(score) ==
    LET n == score.num * 10
        q == n \div score.den
        r2 == 2 * (n % score.den)
    IN  IF r2 < score.den THEN q
        ELSE IF r2 > score.den THEN q + 1
        ELSE IF q % 2 = 0 THEN q ELSE q + 1

Str(content) == [type |-> "string", content |-> content]
StrList(content) == [type |-> "strings", content |-> content]
Obj(content) == [type |-> "object", content |-> content]

\* generate_fallback_feedback: a function of the score and the counts alone
generate_fallback_feedback(score, correct_count, total_count) ==
    LET performance_level ==
            IF RGeq(score, 90) THEN "excellent"
            ELSE IF RGeq(score, 80) THEN "good"
            ELSE IF RGeq(score, 70) THEN "satisfactory"
            ELSE "needs improvement"
    IN
    [overall_analysis |-> Str([score |-> Tenths(score), correct |-> correct_count,
                               total |-> total_count, level |-> performance_level]),
     strengths |-> StrList([items |->
        <<IF correct_count > total_count \div 2
             THEN "Demonstrated understanding of core concepts"
             ELSE "Shows effort and engagement with the material",
          IF RGeq(score, 60) THEN "Good performance on fundamental questions"
             ELSE "Basic comprehension of simple topics",
          IF RGeq(score, 70) THEN "Consistent approach to problem-solving"
             ELSE "Willingness to attempt all questions">>]),
     weaknesses |-> StrList([items |->
        <<IF RLt(score, 80) THEN "Need to strengthen understanding of complex topics"
             ELSE "Minor gaps in advanced concepts",
          IF RLt(score, 70) THEN "Focus on detailed analysis and critical thinking"
             ELSE "Room for improvement in nuanced understanding",
          IF RLt(score, 60) THEN "Practice application of theoretical knowledge"
             ELSE "Fine-tune understanding of specific areas">>]),
     topic_wise_performance |-> Obj(
        [core |-> [score |-> RMin(RAddInt(score, 5), 100),
                   questions_answered |-> Max(1, total_count \div 3)],
         applied |-> [score |-> RMax(RAddInt(score, -10), 0),
                      questions_answered |-> Max(1, total_count \div 3)],
         advanced |-> [score |-> score,
                       questions_answered |-> Max(1, total_count - 2 * (total_count \div 3))]]),
     recommendations |-> StrList([items |->
        <<"Review the syllabus sections corresponding to incorrect answers",
          "Practice similar questions to reinforce weak areas",
          "Focus on understanding concepts rather than memorization",
          "Seek additional resources for challenging topics">>]),
     study_plan |-> Str([score |-> Tenths(score)])]

\* "field in feedback" on a parsed JSON value: key of an object, element of
\* an array, substring of a string; a TypeError on a number
Contains(value, field) ==
    IF value.t = "object" THEN [raises |-> FALSE, in |-> field \in DOMAIN value.members]
    ELSE IF value.t \in {"array", "string"} THEN [raises |-> FALSE, in |-> field \in value.has]
    ELSE [raises |-> TRUE, in |-> FALSE]

\* the try block of generate_feedback_analysis: [raises, feedback]
ParsedFeedback(x) ==
    LET r == call_gemini_api(x) IN
    IF r.raises THEN [raises |-> TRUE]
    ELSE LET j == json_loads(clean_response(r.text)) IN
         IF j.raises THEN [raises |-> TRUE]
         ELSE IF \E i \in DOMAIN required_fields :
                    LET c == Contains(j.value, required_fields[i]) IN c.raises \/ ~c.in
              THEN [raises |-> TRUE]
         ELSE [raises |-> FALSE, feedback |-> j.value]

\* generate_feedback_analysis: the parsed value when the try block accepts
\* it, else the fallback analysis (as a JSON object)
generate_feedback_analysis(detailed_results, score, x) ==
    LET correct_count == Cardinality({i \in DOMAIN detailed_results : detailed_results[i].is_correct})
        total_count == Len(detailed_results)
        p == ParsedFeedback(x)
    IN  IF p.raises
        THEN [t |-> "object",
              members |-> generate_fallback_feedback(score, correct_count, total_count)]
        ELSE p.feedback

AllFields == Range(required_fields)

AIValue(type) == [type |-> type, content |-> [ai |-> "generated"]]

WellShaped ==
    [overall_analysis |-> AIValue("string"), strengths |-> AIValue("strings"),
     weaknesses |-> AIValue("strings"), topic_wise_performance |-> AIValue("object"),
     recommendations |-> AIValue("strings"), study_plan |-> AIValue("string")]

FeedbackPayloads ==
    { [t |-> "invalid"],
      [t |-> "number"],
      [t |-> "string", has |-> {}],
      [t |-> "string", has |-> AllFields],
      [t |-> "array", has |-> AllFields \ {"study_plan"}],
      [t |-> "array", has |-> AllFields],
      [t |-> "object", members |-> [overall_analysis |-> AIValue("string")]],
      [t |-> "object", members |-> [f \in AllFields \ {"study_plan"} |-> WellShaped[f]]],
      [t |-> "object", members |-> WellShaped],
      [t |-> "object", members |-> [WellShaped EXCEPT !.strengths = AIValue("string")]] }

FeedbackExchanges ==
    {Exchange(w, NoText) : w \in GeminiFailures}
        \cup {Exchange("ok", Plain(j)) : j \in FeedbackPayloads}
        \cup {Exchange("ok", t) : t \in Fenced([t |-> "object", members |-> WellShaped])}

----------------------------------------------------------------------------
(* utils/pdf_processor.py *)

\* What each extractor makes of a file: it raises, or yields text of some
\* length after strip() (0: nothing, or only whitespace).
PdfContent(p, s) == [primary |-> p, secondary |-> s]

Extracted(n) == [raises |-> FALSE, len |-> n]

ExtractorRaises == [raises |-> TRUE, len |-> 0]

NoTextExtracted == [len |-> 0, by |-> "none"]

\* extract_text_from_pdf, were it to return any non-empty text of the first
\* extractor
extract_text_from_pdf_nonempty(exists, content) ==
    IF ~exists THEN [raises |-> TRUE, text |-> NoTextExtracted, ran |-> <<>>]
    ELSE IF ~content.primary.raises /\ content.primary.len > 0
         THEN [raises |-> FALSE, text |-> [len |-> content.primary.len, by |-> "PyPDF2"],
               ran |-> <<"PyPDF2">>]
    ELSE IF ~content.secondary.raises /\ content.secondary.len > 0
         THEN [raises |-> FALSE, text |-> [len |-> content.secondary.len, by |-> "pdfplumber"],
               ran |-> <<"PyPDF2", "pdfplumber">>]
    ELSE [raises |-> TRUE, text |-> NoTextExtracted, ran |-> <<"PyPDF2", "pdfplumber">>]

\* extract_text_from_pdf: [raises, text, ran], ran being the extractors that
\* were run, in order
extract_text_from_pdf(exists, content) ==
    IF ~exists THEN [raises |-> TRUE, text |-> NoTextExtracted, ran |-> <<>>]
    ELSE IF ~content.primary.raises /\ content.primary.len > 50
         THEN [raises |-> FALSE, text |-> [len |-> content.primary.len, by |-> "PyPDF2"],
               ran |-> <<"PyPDF2">>]
    ELSE IF ~content.secondary.raises /\ content.secondary.len > 0
         THEN [raises |-> FALSE, text |-> [len |-> content.secondary.len, by |-> "pdfplumber"],
               ran |-> <<"PyPDF2", "pdfplumber">>]
    ELSE [raises |-> TRUE, text |-> NoTextExtracted, ran |-> <<"PyPDF2", "pdfplumber">>]

\* The texts of the model are printable one-letter words separated by single
\* blanks: their words, and their printable or whitespace characters.
Words(text) == (text.len + 1) \div 2

PrintableChars(text) == text.len

\* validate_pdf_content: at least 100 characters after strip(), at least 80%
\* printable or whitespace characters, at least 50 words
validate_pdf_content(text) ==
    IF text.len = 0 \/ text.len < 100 THEN FALSE
    ELSE IF PrintableChars(text) * 10 < 8 * text.len THEN FALSE
    ELSE IF Words(text) < 50 THEN FALSE
    ELSE TRUE

----------------------------------------------------------------------------
(* routers/syllabus.py *)

MaxUploadBytes == 10 * 1024 * 1024

lower(ext) == IF ext = ".PDF" THEN ".pdf" ELSE ext

StoragePath(dir, timestamp, filename) == [dir |-> dir, timestamp |-> timestamp, name |-> filename]

exists(path) == path \in DOMAIN files

\* os.remove, were it to leave the file
remove_nothing(fs, path) == fs

remove(fs, path) == [q \in DOMAIN fs \ {path} |-> fs[q]]

write(fs, path, content) == [q \in DOMAIN fs \cup {path} |-> IF q = path THEN content ELSE fs[q]]

\* the SyllabusResponse of a stored syllabus
SyllabusResponse(d) ==
    [id |-> str(d._id), user_id |-> d.user_id, filename |-> d.filename,
     file_path |-> d.file_path, extracted_text |-> d.extracted_text,
     created_at |-> d.created_at]

\* POST /api/syllabus/upload.  file = [filename: [stem, ext], size, content];
\* writable: which upload directory can be written ("uploads", "/tmp/uploads"
\* or "none"); inserts: whether insert_one succeeds.
upload_syllabus(u, file, writable, inserts) ==
    LET op == "upload_syllabus"
        file_path == StoragePath(writable, now, file.filename)
        saved == write(files, file_path, file.content)
        ex == extract_text_from_pdf(TRUE, file.content)
        Fails(code, detail) ==
            [HTTPException(op, u, code, detail)
                EXCEPT !.request = [file |-> file, writable |-> writable]]
    IN
    /\ UNCHANGED <<quizzes, quiz_results, feedback, now, pending, process>>
    /\ IF lower(file.filename.ext) # ".pdf"
       THEN /\ last' = Fails(400, "Only PDF files are allowed")
            /\ UNCHANGED <<syllabi, files, next_id>>
       ELSE IF file.size > MaxUploadBytes
       THEN /\ last' = Fails(400, "File size must be less than 10MB")
            /\ UNCHANGED <<syllabi, files, next_id>>
       ELSE IF writable = "none"
       THEN \* os.makedirs raises before file_path is bound; the handler's
            \* except clause then raises on the unbound name
            /\ last' = Fails(500, "Internal Server Error")
            /\ UNCHANGED <<syllabi, files, next_id>>
       ELSE IF ex.raises
       THEN \* the file is written, removed again, and the HTTPException(400)
            \* raised inside the try block is caught by its except clause
            /\ files' = remove(saved, file_path)
            /\ last' = Fails(500,
                          "Failed to process file: 400: Failed to extract text from PDF")
            /\ UNCHANGED <<syllabi, next_id>>
       ELSE IF ex.text.len = 0
       THEN /\ files' = remove(saved, file_path)
            /\ last' = Fails(500,
                          "Failed to process file: 400: No text could be extracted from the PDF")
            /\ UNCHANGED <<syllabi, next_id>>
       ELSE IF ~inserts
       THEN \* the except clause finds the file and removes it
            /\ files' = remove(saved, file_path)
            /\ last' = Fails(500, "Failed to process file: insert_one")
            /\ UNCHANGED <<syllabi, next_id>>
       ELSE /\ CanInsert
            /\ files' = saved
            /\ LET syllabus_doc ==
                     [_id |-> next_id, user_id |-> u, filename |-> file.filename,
                      file_path |-> file_path, extracted_text |-> ex.text,
                      created_at |-> now]
               IN /\ syllabi' = Append(syllabi, syllabus_doc)
                  /\ last' = OK(op, u, [file |-> file, writable |-> writable],
                                SyllabusResponse(syllabus_doc))
            /\ next_id' = next_id + 1

\* DELETE /api/syllabus/{syllabus_id}
delete_syllabus(u, syllabus_id) ==
    LET op == "delete_syllabus"
        syllabus == find_one(syllabi, LAMBDA d : d._id = ObjectId(syllabus_id) /\ d.user_id = u)
    IN
    /\ UNCHANGED <<quiz_results, feedback, now, next_id, pending, process>>
    /\ IF ObjectId(syllabus_id) = InvalidId
       THEN /\ last' = HTTPException(op, u, 400, "Invalid syllabus ID")
            /\ UNCHANGED <<syllabi, quizzes, files>>
       ELSE IF ~Found(syllabus)
       THEN /\ last' = HTTPException(op, u, 404, "Syllabus not found")
            /\ UNCHANGED <<syllabi, quizzes, files>>
       ELSE /\ quizzes' = delete_many(quizzes, LAMBDA q : q.syllabus_id = syllabus_id)
            /\ files' = IF exists(syllabus.file_path) THEN remove(files, syllabus.file_path)
                        ELSE files
            /\ syllabi' = delete_many(syllabi, LAMBDA d : d._id = ObjectId(syllabus_id))
            /\ last' = OK(op, u, [syllabus_id |-> syllabus_id], [message |-> "Syllabus deleted successfully"])

\* GET /api/syllabus/list, were the query not filtered by user_id
list_syllabi_unscoped(u) ==
    LET every == sort_desc(syllabi, "created_at")
    IN
    /\ UNCHANGED <<syllabi, quizzes, quiz_results, feedback, files, now, next_id, pending, process>>
    /\ last' = OK("list_syllabi", u, NoRequest,
                  [k \in DOMAIN every |->
                      [id |-> str(every[k]._id),
                       filename |-> every[k].filename,
                       created_at |-> every[k].created_at,
                       quiz_count |-> count_documents(quizzes,
                           {q \in Range(quizzes) : q.syllabus_id = str(every[k]._id)})]])

\* GET /api/syllabus/list
list_syllabi(u) ==
    LET own == sort_desc(find(syllabi, LAMBDA d : d.user_id = u), "created_at")
    IN
    /\ UNCHANGED <<syllabi, quizzes, quiz_results, feedback, files, now, next_id, pending, process>>
    /\ last' = OK("list_syllabi", u, NoRequest,
                  [k \in DOMAIN own |->
                      [id |-> str(own[k]._id),
                       filename |-> own[k].filename,
                       created_at |-> own[k].created_at,
                       quiz_count |-> count_documents(quizzes,
                           {q \in Range(quizzes) : q.syllabus_id = str(own[k]._id)})]])

\* GET /api/syllabus/{syllabus_id}
get_syllabus(u, syllabus_id) ==
    LET op == "get_syllabus"
        syllabus == find_one(syllabi, LAMBDA d : d._id = ObjectId(syllabus_id) /\ d.user_id = u)
    IN
    /\ UNCHANGED <<syllabi, quizzes, quiz_results, feedback, files, now, next_id, pending, process>>
    /\ last' = IF ObjectId(syllabus_id) = InvalidId
               THEN HTTPException(op, u, 400, "Invalid syllabus ID")
               ELSE IF ~Found(syllabus)
               THEN HTTPException(op, u, 404, "Syllabus not found")
               ELSE OK(op, u, [syllabus_id |-> syllabus_id], SyllabusResponse(syllabus))

\* the clock advances
Tick ==
    /\ now < MaxTime
    /\ now' = now + 1
    /\ UNCHANGED <<syllabi, quizzes, quiz_results, feedback, files, next_id, pending, last, process>>

----------------------------------------------------------------------------
(* routers/quiz.py *)

\* the questions as stored: ids are the decimal positions, from 0
questions_with_answers(questions) ==
    [i \in 1..Len(questions) |->
        [id |-> ToString(i - 1),
         question |-> questions[i].question,
         options |-> questions[i].options,
         correct_answer |-> questions[i].correct_answer]]

\* the questions sent as they are stored
questions_for_quiz_as_stored(stored) ==
    [i \in 1..Len(stored) |-> stored[i]]

\* the questions as sent to the quiz taker
questions_for_quiz(stored) ==
    [i \in 1..Len(stored) |->
        [id |-> stored[i].id, question |-> stored[i].question, options |-> stored[i].options]]

\* POST /api/quiz/generate, up to the awaited AI call
\* request = [syllabus_id, num_questions, difficulty]
generate_quiz_call(u, request) ==
    LET op == "generate_quiz"
        syllabus == find_one(syllabi,
                       LAMBDA d : d._id = ObjectId(request.syllabus_id) /\ d.user_id = u)
    IN
    /\ UNCHANGED <<syllabi, quizzes, quiz_results, feedback, files, now, next_id, process>>
    /\ IF ObjectId(request.syllabus_id) = InvalidId
       THEN /\ last' = HTTPException(op, u, 400, "Invalid syllabus ID")
            /\ UNCHANGED pending
       ELSE IF ~Found(syllabus)
       THEN /\ last' = HTTPException(op, u, 404, "Syllabus not found")
            /\ UNCHANGED pending
       ELSE /\ BagCardinality(pending) < MaxPending
            /\ pending' = pending (+) SetToBag({[op |-> op, user |-> u, request |-> request,
                                                 syllabus |-> syllabus]})
            /\ UNCHANGED last

\* POST /api/quiz/generate, from the AI exchange x coming back
generate_quiz_resume(p, x) ==
    LET generated == generate_quiz_questions(x, p.request.num_questions, p.request.difficulty)
        quiz_doc == [_id |-> next_id,
                     user_id |-> p.user,
                     syllabus_id |-> p.request.syllabus_id,
                     questions |-> questions_with_answers(generated.questions),
                     difficulty |-> p.request.difficulty,
                     time_limit |-> TimeLimit,
                     created_at |-> now]
    IN
    /\ p.op = "generate_quiz"
    /\ BagIn(p, pending)
    /\ pending' = pending (-) SetToBag({p})
    /\ UNCHANGED <<syllabi, quiz_results, feedback, files, now, process>>
    /\ IF generated.raises
       THEN /\ last' = After(p, x, HTTPException(p.op, p.user, 500,
                                              "Failed to generate quiz"))
            /\ UNCHANGED <<quizzes, next_id>>
       ELSE /\ CanInsert
            /\ quizzes' = Append(quizzes, quiz_doc)
            /\ next_id' = next_id + 1
            /\ last' = After(p, x, OK(p.op, p.user, p.request,
                          [id |-> str(quiz_doc._id),
                           syllabus_id |-> quiz_doc.syllabus_id,
                           questions |-> questions_for_quiz(quiz_doc.questions),
                           created_at |-> quiz_doc.created_at,
                           time_limit |-> quiz_doc.time_limit]))

\* GET /api/quiz/{quiz_id}
get_quiz(u, quiz_id) ==
    LET op == "get_quiz"
        quiz == find_one(quizzes, LAMBDA d : d._id = ObjectId(quiz_id) /\ d.user_id = u)
    IN
    /\ UNCHANGED <<syllabi, quizzes, quiz_results, feedback, files, now, next_id, pending, process>>
    /\ last' = IF ObjectId(quiz_id) = InvalidId
               THEN HTTPException(op, u, 400, "Invalid quiz ID")
               ELSE IF ~Found(quiz)
               THEN HTTPException(op, u, 404, "Quiz not found")
               ELSE OK(op, u, [quiz_id |-> quiz_id], [id |-> str(quiz._id),
                               syllabus_id |-> quiz.syllabus_id,
                               questions |-> questions_for_quiz(quiz.questions),
                               created_at |-> quiz.created_at,
                               time_limit |-> quiz.time_limit])

\* submission.answers.get(question_id, "")
get(answers, key, default) == IF key \in DOMAIN answers THEN answers[key] ELSE default

\* the scoring loop, were it to record only the questions that were answered
RECURSIVE score_loop_answered(_, _, _)
score_loop_answered(questions, answers, n) ==
    IF n = 0 THEN [correct_answers |-> 0, detailed_results |-> <<>>]
    ELSE LET before == score_loop_answered(questions, answers, n - 1)
             question == questions[n]
             is_correct == get(answers, question.id, "") = question.correct_answer
         IN IF question.id \notin DOMAIN answers THEN before
            ELSE [correct_answers |-> IF is_correct THEN before.correct_answers + 1
                                      ELSE before.correct_answers,
                  detailed_results |-> Append(before.detailed_results,
                      [question_id |-> question.id,
                       question |-> question.question,
                       options |-> question.options,
                       user_answer |-> answers[question.id],
                       correct_answer |-> question.correct_answer,
                       is_correct |-> is_correct])]

\* one pass of the scoring loop over the first n questions:
\* [correct_answers, detailed_results]
RECURSIVE score_loop(_, _, _)
score_loop(questions, answers, n) ==
    IF n = 0 THEN [correct_answers |-> 0, detailed_results |-> <<>>]
    ELSE LET before == score_loop(questions, answers, n - 1)
             question == questions[n]
             question_id == question.id
             user_answer == get(answers, question_id, "")
             is_correct == user_answer = question.correct_answer
         IN [correct_answers |-> IF is_correct THEN before.correct_answers + 1
                                 ELSE before.correct_answers,
             detailed_results |-> Append(before.detailed_results,
                 [question_id |-> question_id,
                  question |-> question.question,
                  options |-> question.options,
                  user_answer |-> user_answer,
                  correct_answer |-> question.correct_answer,
                  is_correct |-> is_correct])]

\* the score with floor division (//) in place of true division
score_of_floor(correct_answers, total_questions) ==
    IF total_questions > 0 THEN RInt((correct_answers \div total_questions) * 100)
    ELSE RInt(0)

\* score = (correct_answers / total_questions) * 100 if total_questions > 0 else 0
score_of(correct_answers, total_questions) ==
    IF total_questions > 0 THEN RMulInt(Rat(correct_answers, total_questions), 100)
    ELSE RInt(0)

\* POST /api/quiz/submit.  submission = [quiz_id, answers]
submit_quiz(u, submission) ==
    LET op == "submit_quiz"
        quiz == find_one(quizzes, LAMBDA d : d._id = ObjectId(submission.quiz_id) /\ d.user_id = u)
        total_questions == Len(quiz.questions)
        loop == score_loop(quiz.questions, submission.answers, total_questions)
        score == score_of(loop.correct_answers, total_questions)
        result_doc == [_id |-> next_id,
                       quiz_id |-> submission.quiz_id,
                       user_id |-> u,
                       answers |-> submission.answers,
                       score |-> score,
                       total_questions |-> total_questions,
                       correct_answers |-> loop.correct_answers,
                       detailed_results |-> loop.detailed_results,
                       submitted_at |-> now]
    IN
    /\ UNCHANGED <<syllabi, quizzes, feedback, files, now, pending, process>>
    /\ IF ObjectId(submission.quiz_id) = InvalidId
       THEN /\ last' = HTTPException(op, u, 400, "Invalid quiz ID")
            /\ UNCHANGED <<quiz_results, next_id>>
       ELSE IF ~Found(quiz)
       THEN /\ last' = HTTPException(op, u, 404, "Quiz not found")
            /\ UNCHANGED <<quiz_results, next_id>>
       ELSE /\ CanInsert
            /\ quiz_results' = Append(quiz_results, result_doc)
            /\ next_id' = next_id + 1
            /\ last' = OK(op, u, submission, [id |-> str(result_doc._id),
                                  quiz_id |-> result_doc.quiz_id,
                                  user_id |-> result_doc.user_id,
                                  answers |-> result_doc.answers,
                                  score |-> result_doc.score,
                                  total_questions |-> result_doc.total_questions,
                                  correct_answers |-> result_doc.correct_answers,
                                  submitted_at |-> result_doc.submitted_at,
                                  detailed_results |-> result_doc.detailed_results])

\* GET /api/quiz/results/{result_id}
get_quiz_result(u, result_id) ==
    LET op == "get_quiz_result"
        result == find_one(quiz_results, LAMBDA d : d._id = ObjectId(result_id) /\ d.user_id = u)
    IN
    /\ UNCHANGED <<syllabi, quizzes, quiz_results, feedback, files, now, next_id, pending, process>>
    /\ last' = IF ObjectId(result_id) = InvalidId
               THEN HTTPException(op, u, 400, "Invalid result ID")
               ELSE IF ~Found(result)
               THEN HTTPException(op, u, 404, "Quiz result not found")
               ELSE OK(op, u, [result_id |-> result_id], [id |-> str(result._id),
                               quiz_id |-> result.quiz_id,
                               user_id |-> result.user_id,
                               answers |-> result.answers,
                               score |-> result.score,
                               total_questions |-> result.total_questions,
                               correct_answers |-> result.correct_answers,
                               submitted_at |-> result.submitted_at,
                               detailed_results |-> result.detailed_results])

\* GET /api/quiz/list/results
list_quiz_results(u) ==
    LET results == sort_desc(find(quiz_results, LAMBDA d : d.user_id = u), "submitted_at")
        quiz_of(result) == find_one(quizzes, LAMBDA d : d._id = ObjectId(result.quiz_id))
        syllabus_of(quiz) == find_one(syllabi, LAMBDA d : d._id = ObjectId(quiz.syllabus_id))
    IN
    /\ UNCHANGED <<syllabi, quizzes, quiz_results, feedback, files, now, next_id, pending, process>>
    /\ last' = OK("list_quiz_results", u, NoRequest,
                  [k \in DOMAIN results |->
                      LET result == results[k]
                          quiz == quiz_of(result)
                      IN [id |-> str(result._id),
                          syllabus_filename |->
                              IF Found(quiz) /\ Found(syllabus_of(quiz))
                              THEN [known |-> TRUE, filename |-> syllabus_of(quiz).filename]
                              ELSE [known |-> FALSE],
                          score |-> result.score,
                          total_questions |-> result.total_questions,
                          created_at |-> IF Found(quiz) THEN quiz.created_at
                                         ELSE result.submitted_at,
                          submitted_at |-> result.submitted_at]])

----------------------------------------------------------------------------
(* routers/feedback.py *)

\* the response model's field types
FieldType ==
    [overall_analysis |-> "string", strengths |-> "strings", weaknesses |-> "strings",
     topic_wise_performance |-> "object", recommendations |-> "strings",
     study_plan |-> "string"]

\* FeedbackResponse(...): pydantic raises a ValidationError unless every
\* field has the declared type
FeedbackResponse(doc) ==
    IF \E f \in AllFields : doc[f].type # FieldType[f]
    THEN [raises |-> TRUE]
    ELSE [raises |-> FALSE,
          body |-> [id |-> str(doc._id),
                    result_id |-> doc.result_id,
                    overall_analysis |-> doc.overall_analysis,
                    strengths |-> doc.strengths,
                    weaknesses |-> doc.weaknesses,
                    topic_wise_performance |-> doc.topic_wise_performance,
                    recommendations |-> doc.recommendations,
                    study_plan |-> doc.study_plan,
                    generated_at |-> doc.generated_at]]

\* POST /api/feedback/generate, up to the awaited AI call
\* request = [result_id]
generate_feedback_call(u, request) ==
    LET op == "generate_feedback"
        quiz_result == find_one(quiz_results,
                          LAMBDA d : d._id = ObjectId(request.result_id) /\ d.user_id = u)
        existing_feedback == find_one(feedback, LAMBDA d : d.result_id = request.result_id)
        quiz == find_one(quizzes, LAMBDA d : d._id = ObjectId(quiz_result.quiz_id))
        syllabus == find_one(syllabi, LAMBDA d : d._id = ObjectId(quiz.syllabus_id))
    IN
    /\ UNCHANGED <<syllabi, quizzes, quiz_results, feedback, files, now, next_id, process>>
    /\ IF ObjectId(request.result_id) = InvalidId
       THEN /\ last' = HTTPException(op, u, 400, "Invalid result ID")
            /\ UNCHANGED pending
       ELSE IF ~Found(quiz_result)
       THEN /\ last' = HTTPException(op, u, 404, "Quiz result not found")
            /\ UNCHANGED pending
       ELSE IF Found(existing_feedback)
       THEN \* the response model is built outside any try block
            /\ last' = IF FeedbackResponse(existing_feedback).raises
                       THEN HTTPException(op, u, 500, "Internal Server Error")
                       ELSE OK(op, u, request, FeedbackResponse(existing_feedback).body)
            /\ UNCHANGED pending
       ELSE IF ~Found(quiz)
       THEN /\ last' = HTTPException(op, u, 404, "Quiz not found")
            /\ UNCHANGED pending
       ELSE IF ~Found(syllabus)
       THEN /\ last' = HTTPException(op, u, 404, "Syllabus not found")
            /\ UNCHANGED pending
       ELSE /\ BagCardinality(pending) < MaxPending
            /\ pending' = pending (+) SetToBag({[op |-> op, user |-> u, request |-> request,
                                                 quiz_result |-> quiz_result,
                                                 syllabus |-> syllabus]})
            /\ UNCHANGED last

\* POST /api/feedback/generate, from the AI exchange x coming back
generate_feedback_resume(p, x) ==
    LET feedback_data == generate_feedback_analysis(p.quiz_result.detailed_results,
                                                    p.quiz_result.score, x)
        feedback_doc == [_id |-> next_id,
                         result_id |-> p.request.result_id,
                         user_id |-> p.user,
                         overall_analysis |-> feedback_data.members.overall_analysis,
                         strengths |-> feedback_data.members.strengths,
                         weaknesses |-> feedback_data.members.weaknesses,
                         topic_wise_performance |-> feedback_data.members.topic_wise_performance,
                         recommendations |-> feedback_data.members.recommendations,
                         study_plan |-> feedback_data.members.study_plan,
                         generated_at |-> now]
    IN
    /\ p.op = "generate_feedback"
    /\ BagIn(p, pending)
    /\ pending' = pending (-) SetToBag({p})
    /\ UNCHANGED <<syllabi, quizzes, quiz_results, files, now, process>>
    /\ IF feedback_data.t # "object"
       THEN \* feedback_data["overall_analysis"] raises a TypeError
            /\ last' = After(p, x, HTTPException(p.op, p.user, 500,
                                              "Failed to generate feedback"))
            /\ UNCHANGED <<feedback, next_id>>
       ELSE /\ CanInsert
            /\ feedback' = Append(feedback, feedback_doc)
            /\ next_id' = next_id + 1
            /\ last' = IF FeedbackResponse(feedback_doc).raises
                       THEN After(p, x, HTTPException(p.op, p.user, 500,
                                                   "Failed to generate feedback"))
                       ELSE After(p, x, OK(p.op, p.user, p.request,
                                        FeedbackResponse(feedback_doc).body))

\* GET /api/feedback/{feedback_id}
get_feedback(u, feedback_id) ==
    LET op == "get_feedback"
        doc == find_one(feedback, LAMBDA d : d._id = ObjectId(feedback_id) /\ d.user_id = u)
    IN
    /\ UNCHANGED <<syllabi, quizzes, quiz_results, feedback, files, now, next_id, pending, process>>
    /\ last' = IF ObjectId(feedback_id) = InvalidId
               THEN HTTPException(op, u, 400, "Invalid feedback ID")
               ELSE IF ~Found(doc)
               THEN HTTPException(op, u, 404, "Feedback not found")
               ELSE IF FeedbackResponse(doc).raises
               THEN HTTPException(op, u, 500, "Internal Server Error")
               ELSE OK(op, u, [feedback_id |-> feedback_id], FeedbackResponse(doc).body)


----------------------------------------------------------------------------
(* Requests *)

Filenames == {[stem |-> "notes", ext |-> ".pdf"], [stem |-> "NOTES", ext |-> ".PDF"],
              [stem |-> "notes", ext |-> ".txt"]}

PdfContents ==
    {PdfContent(p, s) : p \in {ExtractorRaises, Extracted(0), Extracted(50), Extracted(51)},
                        s \in {ExtractorRaises, Extracted(0), Extracted(120)}}

UploadFiles == [filename : Filenames, size : {0, MaxUploadBytes, MaxUploadBytes + 1},
                content : PdfContents]

\* a text PDF the first extractor reads
GoodFile == [filename |-> [stem |-> "notes", ext |-> ".pdf"], size |-> 2048,
             content |-> PdfContent(Extracted(120), ExtractorRaises)]

QuizRequests == [syllabus_id : IdStrings, num_questions : NumQuestions, difficulty : Difficulties]

AnswerKeys == {ToString(i) : i \in 0..(MaxCount - 1)} \cup {"x"}

AnswerValues == {"a", ConceptOption("easy")}

\* answers: Dict[str, str]
AnswerMaps == UNION {[K -> AnswerValues] : K \in SUBSET AnswerKeys}

Submissions == [quiz_id : IdStrings, answers : AnswerMaps]

FeedbackRequests == [result_id : IdStrings]

Pending(op) == {p \in BagToSet(pending) : p.op = op}

----------------------------------------------------------------------------
(* utils/database.py.  The connection is two module globals, client and db. *)
(* Async handlers and the startup hook call get_database on the event-loop *)
(* thread, where the call runs to its end; get_current_user is a plain     *)
(* function, which the framework runs on a worker thread, so its calls of  *)
(* get_database interleave, a thread being suspended between the test of   *)
(* line 44 and the statements of initialize_database.                      *)

\* None, where the other values are records
None == [none |-> TRUE]

Threads == {"t1", "t2", "t3"}

InitOutcomes == {"ok", "MongoClient raises", "create_index raises"}

\* MongoClient(...): one more client object
MongoClient == [id |-> Cardinality(clients) + 1]

\* client.analyquiz
analyquiz(c) == [database |-> "analyquiz", client |-> c.id]

\* the connection as a record of the globals and of what they refer to
Connection == [client |-> client, db |-> db, clients |-> clients,
               email_index |-> email_index, raises |-> FALSE]

\* initialize_database run to its end: the client is constructed and both
\* globals are bound before the indexes are created, so a create_index that
\* raises leaves the handle set
initialize_database(outcome) ==
    IF outcome = "MongoClient raises" THEN [Connection EXCEPT !.raises = TRUE]
    ELSE [client |-> MongoClient, db |-> analyquiz(MongoClient),
          clients |-> clients \cup {MongoClient},
          email_index |-> email_index \/ outcome = "ok",
          raises |-> outcome # "ok"]

\* get_database run to its end, as on the event-loop thread
get_database(outcome) == IF db = None THEN initialize_database(outcome) ELSE Connection

\* the globals take the values of a connection record
Bind(c) ==
    /\ client' = c.client
    /\ db' = c.db
    /\ clients' = c.clients
    /\ email_index' = c.email_index

\* the startup hook of main.py: initialize_database before the first request.
\* A startup that raises ends the process, so only the one that succeeds
\* leaves a state behind.
lifespan ==
    /\ db = None /\ clients = {} /\ pending = EmptyBag /\ last = NoResponse
    /\ Bind(initialize_database("ok"))
    /\ last' = OK("lifespan", "startup", NoRequest, [db |-> analyquiz(MongoClient)])
    /\ UNCHANGED <<syllabi, quizzes, quiz_results, feedback, files, now, next_id, pending,
                   users, environ>>

Running(t) == {p \in BagToSet(pending) : p.user = t}

\* get_database on worker thread t, line 44: the handle is returned when it
\* is set, and otherwise the thread goes on to initialize_database
get_database_test(t) ==
    /\ Running(t) = {}
    /\ IF db # None
       THEN /\ last' = OK("get_database", t, NoRequest, [db |-> db])
            /\ UNCHANGED pending
       ELSE /\ BagCardinality(pending) < MaxPending
            /\ pending' = pending (+) SetToBag({[op |-> "initialize_database", user |-> t,
                                                 line |-> "MongoClient"]})
            /\ UNCHANGED last
    /\ UNCHANGED <<syllabi, quizzes, quiz_results, feedback, files, now, next_id, process>>

\* initialize_database on the thread of p, lines 18-19
initialize_database_connect(p, raises) ==
    /\ p.line = "MongoClient"
    /\ IF raises
       THEN /\ pending' = pending (-) SetToBag({p})
            /\ last' = HTTPException("get_database", p.user, 500, "Internal Server Error")
            /\ UNCHANGED <<client, db, clients>>
       ELSE /\ pending' = (pending (-) SetToBag({p}))
                              (+) SetToBag({[p EXCEPT !.line = "create_index"]})
            /\ client' = MongoClient
            /\ db' = analyquiz(MongoClient)
            /\ clients' = clients \cup {MongoClient}
            /\ UNCHANGED last
    /\ UNCHANGED <<syllabi, quizzes, quiz_results, feedback, files, now, next_id,
                   users, email_index, environ>>

\* initialize_database on the thread of p, lines 22-29, and the return of
\* get_database, which reads the global again (line 49)
initialize_database_indexes(p, raises) ==
    /\ p.line = "create_index"
    /\ pending' = pending (-) SetToBag({p})
    /\ IF raises
       THEN /\ last' = HTTPException("get_database", p.user, 500, "Internal Server Error")
            /\ UNCHANGED email_index
       ELSE /\ last' = OK("get_database", p.user, NoRequest, [db |-> db])
            /\ email_index' = TRUE
    /\ UNCHANGED <<syllabi, quizzes, quiz_results, feedback, files, now, next_id,
                   users, client, db, clients, environ>>

\* GET /health, on the event-loop thread: any exception of get_database is
\* caught and reported as "disconnected"
health_check(outcome) ==
    LET c == get_database(outcome)
    IN
    /\ Bind(c)
    /\ last' = OK("health_check", "none", NoRequest,
                  [status |-> "healthy",
                   database |-> IF c.raises THEN "disconnected" ELSE "connected"])
    /\ UNCHANGED <<syllabi, quizzes, quiz_results, feedback, files, now, next_id, pending,
                   users, environ>>

----------------------------------------------------------------------------
(* routers/auth.py.  A token is its claims and the key that signed it; the *)
(* clock and the expiry are in seconds.                                    *)

Emails == {"a@x.io", "b@x.io"}

Passwords == {"pw1", "pw2"}

\* the ObjectIds of the user documents, in the order they are handed out
UserIds == <<"u1", "u2", "u3">>

timedelta(minutes) == [seconds |-> minutes * 60]

\* bcrypt: the digest verifies the password it was made from and no other
hash_password(password) == [bcrypt |-> password]

verify_password(password, hashed_password) == hashed_password.bcrypt = password

\* os.getenv("JWT_ACCESS_TOKEN_EXPIRE_MINUTES", 30)
ExpireMinutes ==
    IF "JWT_ACCESS_TOKEN_EXPIRE_MINUTES" \in DOMAIN environ
    THEN environ.JWT_ACCESS_TOKEN_EXPIRE_MINUTES
    ELSE 30

\* `if expires_delta:` reads the delta as a truth value
Truthy(expires_delta) == expires_delta # None /\ expires_delta.seconds # 0

create_access_token(data, expires_delta) ==
    [sub |-> data.sub,
     exp |-> IF Truthy(expires_delta) THEN now + expires_delta.seconds
             ELSE now + timedelta(15).seconds,
     key |-> "JWT_SECRET_KEY"]

\* the header of a request: no Authorization header, or a bearer token
NoCredentials == [scheme |-> "none"]

\* a token without the claim "sub"
NoSubject == "None"

\* jwt.decode: the signature is checked against the key and the expiry
\* against the clock
PyJWTError(token) == token.key # "JWT_SECRET_KEY" \/ token.exp <= now

NoUser == [_id |-> "None"]

Unauthorized(code, detail) == [raises |-> TRUE, status |-> code, detail |-> detail, user |-> NoUser]

\* HTTPBearer: a request without credentials is refused before verify_token
\* runs, with the status of the installed framework version
security(credentials, bearer_status) ==
    IF credentials = NoCredentials
    THEN Unauthorized(bearer_status, "Not authenticated")
    ELSE [raises |-> FALSE, status |-> 200, detail |-> "none", user |-> NoUser]

verify_token(credentials) ==
    IF PyJWTError(credentials.credentials) \/ credentials.credentials.sub = NoSubject
    THEN Unauthorized(401, "Invalid authentication credentials")
    ELSE [raises |-> FALSE, status |-> 200, detail |-> "none", user |-> NoUser]

UserByEmail(email) ==
    LET hits == {i \in DOMAIN users : users[i].email = email}
    IN  IF hits = {} THEN NoUser ELSE users[CHOOSE i \in hits : \A j \in hits : i <= j]

\* the dependency of every authenticated route, with the handle set
get_current_user(credentials, bearer_status) ==
    IF security(credentials, bearer_status).raises THEN security(credentials, bearer_status)
    ELSE IF verify_token(credentials).raises THEN verify_token(credentials)
    ELSE IF UserByEmail(credentials.credentials.sub) = NoUser
         THEN Unauthorized(404, "User not found")
         ELSE [raises |-> FALSE, status |-> 200, detail |-> "none",
               user |-> UserByEmail(credentials.credentials.sub)]

UserResponse(user) ==
    [id |-> user._id, email |-> user.email, name |-> user.name, created_at |-> user.created_at]

Token(user, access_token) ==
    [access_token |-> access_token, token_type |-> "bearer", user |-> UserResponse(user)]

Registered_Never(email) == FALSE

\* db.users.find_one({"email": ...}) is truthy
Registered(email) == UserByEmail(email) # NoUser

\* POST /api/auth/signup, on the event-loop thread
signup(user_data, outcome) ==
    LET op == "signup"
        c == get_database(outcome)
        user_doc == [_id |-> UserIds[Len(users) + 1], email |-> user_data.email,
                     password |-> hash_password(user_data.password),
                     name |-> user_data.name, created_at |-> now]
        Fails(code, detail) == [HTTPException(op, user_data.email, code, detail)
                                   EXCEPT !.request = user_data]
    IN
    /\ Len(users) < Len(UserIds)
    /\ Bind(c)
    /\ UNCHANGED <<syllabi, quizzes, quiz_results, feedback, files, now, next_id, pending,
                   environ>>
    /\ IF c.raises
       THEN /\ last' = Fails(500, "Internal Server Error")
            /\ UNCHANGED users
       ELSE IF Registered(user_data.email)
       THEN /\ last' = Fails(400, "Email already registered")
            /\ UNCHANGED users
       ELSE IF c.email_index /\ \E i \in DOMAIN users : users[i].email = user_data.email
       THEN /\ last' = Fails(500, "Internal Server Error")    \* DuplicateKeyError
            /\ UNCHANGED users
       ELSE /\ users' = Append(users, user_doc)
            /\ last' = OK(op, user_data.email, user_data,
                          Token(user_doc, create_access_token([sub |-> user_data.email],
                                                              timedelta(ExpireMinutes))))

\* POST /api/auth/login
login(user_credentials, outcome) ==
    LET op == "login"
        c == get_database(outcome)
        user == UserByEmail(user_credentials.email)
        Fails(code, detail) == [HTTPException(op, user_credentials.email, code, detail)
                                   EXCEPT !.request = user_credentials]
    IN
    /\ Bind(c)
    /\ UNCHANGED <<syllabi, quizzes, quiz_results, feedback, files, now, next_id, pending,
                   users, environ>>
    /\ last' = IF c.raises THEN Fails(500, "Internal Server Error")
               ELSE IF user = NoUser \/ ~verify_password(user_credentials.password, user.password)
               THEN Fails(401, "Incorrect email or password")
               ELSE OK(op, user_credentials.email, user_credentials,
                       Token(user, create_access_token([sub |-> user.email],
                                                       timedelta(ExpireMinutes))))

\* the routes that depend on get_current_user
Routes == {"get_current_user_info", "upload_syllabus", "list_syllabi", "get_syllabus",
           "delete_syllabus", "generate_quiz", "get_quiz", "submit_quiz",
           "get_quiz_result", "list_quiz_results", "generate_feedback", "get_feedback"}

\* a request to an authenticated route that its dependency refuses: the
\* handler does not run
refused(route, credentials, bearer_status) ==
    LET who == get_current_user(credentials, bearer_status)
    IN
    /\ db # None
    /\ who.raises
    /\ last' = [HTTPException(route, "none", who.status, who.detail)
                   EXCEPT !.request = credentials]
    /\ UNCHANGED <<syllabi, quizzes, quiz_results, feedback, files, now, next_id, pending,
                   process>>

\* GET /api/auth/me
get_current_user_info(credentials, bearer_status) ==
    LET op == "get_current_user_info"
        who == get_current_user(credentials, bearer_status)
    IN
    /\ db # None
    /\ ~who.raises
    /\ last' = OK(op, who.user._id, credentials, UserResponse(who.user))
    /\ UNCHANGED <<syllabi, quizzes, quiz_results, feedback, files, now, next_id, pending,
                   process>>

\* create_access_token called by itself
IssueToken(data, expires_delta) ==
    /\ last' = OK("create_access_token", "none",
                  [data |-> data, expires_delta |-> expires_delta],
                  create_access_token(data, expires_delta))
    /\ UNCHANGED <<syllabi, quizzes, quiz_results, feedback, files, now, next_id, pending,
                   process>>

----------------------------------------------------------------------------
(* The service *)

\* the connection the startup hook leaves
Started ==
    [client |-> [id |-> 1], db |-> analyquiz([id |-> 1]), clients |-> {[id |-> 1]}]

\* os.environ without and with JWT_ACCESS_TOKEN_EXPIRE_MINUTES
Unset == [MONGODB_URI |-> "mongodb://"]

Minutes(m) == [MONGODB_URI |-> "mongodb://", JWT_ACCESS_TOKEN_EXPIRE_MINUTES |-> m]

\* the accounts of the users that make the requests of the syllabus, quiz
\* and feedback routers
SignedUp ==
    [k \in 1..Cardinality(Users) |->
        [_id |-> UserIds[k], email |-> IF k = 1 THEN "a@x.io" ELSE "b@x.io",
         password |-> hash_password("pw1"), name |-> "name", created_at |-> 0]]

\* the state after startup, with the users signed up
Init ==
    /\ syllabi = <<>>
    /\ quizzes = <<>>
    /\ quiz_results = <<>>
    /\ feedback = <<>>
    /\ files = <<>>
    /\ now = 0
    /\ next_id = 1
    /\ pending = EmptyBag
    /\ last = NoResponse
    /\ users = SignedUp
    /\ email_index = TRUE
    /\ client = Started.client
    /\ db = Started.db
    /\ clients = Started.clients
    /\ environ = Unset

Next ==
    \/ \E u \in Users, f \in UploadFiles, w \in {"uploads", "/tmp/uploads", "none"} :
            \E i \in BOOLEAN : upload_syllabus(u, f, w, i)
    \/ \E u \in Users, s \in IdStrings : delete_syllabus(u, s)
    \/ \E u \in Users, r \in QuizRequests : generate_quiz_call(u, r)
    \/ \E p \in Pending("generate_quiz"), x \in QuizExchanges : generate_quiz_resume(p, x)
    \/ \E u \in Users, s \in IdStrings : get_quiz(u, s)
    \/ \E u \in Users, s \in Submissions : submit_quiz(u, s)
    \/ \E u \in Users, s \in IdStrings : get_quiz_result(u, s)
    \/ \E u \in Users, r \in FeedbackRequests : generate_feedback_call(u, r)
    \/ \E p \in Pending("generate_feedback"), x \in FeedbackExchanges :
            generate_feedback_resume(p, x)
    \/ \E u \in Users, s \in IdStrings : get_feedback(u, s)
    \/ \E u \in Users : list_syllabi(u)
    \/ \E u \in Users, s \in IdStrings : get_syllabus(u, s)
    \/ \E u \in Users : list_quiz_results(u)
    \/ Tick

Spec == Init /\ [][Next]_vars

----------------------------------------------------------------------------
(* Quiz generation from one uploaded syllabus, one request at a time *)

UploadOne == syllabi = <<>> /\ \E u \in Users : upload_syllabus(u, GoodFile, "uploads", TRUE)

NextQuiz ==
    \/ UploadOne
    \/ \E u \in Users, r \in QuizRequests :
            quizzes = <<>> /\ pending = EmptyBag /\ generate_quiz_call(u, r)
    \/ \E p \in Pending("generate_quiz"), x \in QuizExchanges : generate_quiz_resume(p, x)

SpecQuiz == Init /\ [][NextQuiz]_vars

(* Quiz generation, and reading the quiz back *)

NextQuizRead ==
    \/ NextQuiz
    \/ \E u \in Users, s \in IdStrings : get_quiz(u, s)

SpecQuizRead == Init /\ [][NextQuizRead]_vars

(* Scoring of one submission against one generated quiz *)

\* exchanges that end in each kind of stored quiz: the fallback questions, or
\* the accepted items of a reply
ScoredExchanges ==
    {Exchange("timeout", NoText)}
        \cup {Exchange("ok", Plain([t |-> "array", items |-> s])) :
                s \in SeqsUpTo({q \in QuizItems : QuestionOK(q)}, MaxReply)}

NextSubmit ==
    \/ UploadOne
    \/ \E u \in Users, r \in QuizRequests :
            quizzes = <<>> /\ pending = EmptyBag /\ generate_quiz_call(u, r)
    \/ \E p \in Pending("generate_quiz"), x \in ScoredExchanges : generate_quiz_resume(p, x)
    \/ \E u \in Users, s \in Submissions : quiz_results = <<>> /\ submit_quiz(u, s)

SpecSubmit == Init /\ [][NextSubmit]_vars

(* Feedback for one scored submission, requests running concurrently *)

NextFeedback ==
    \/ UploadOne
    \/ \E u \in Users :
            /\ quizzes = <<>> /\ pending = EmptyBag
            /\ generate_quiz_call(u, [syllabus_id |-> str(1), num_questions |-> 2,
                                      difficulty |-> "easy"])
    \/ \E p \in Pending("generate_quiz") : generate_quiz_resume(p, Exchange("timeout", NoText))
    \/ \E u \in Users, a \in {<<>>, [k \in {"0", "1"} |-> ConceptOption("easy")]} :
            /\ quiz_results = <<>>
            /\ submit_quiz(u, [quiz_id |-> str(2), answers |-> a])
    \/ \E u \in Users, r \in FeedbackRequests : generate_feedback_call(u, r)
    \/ \E p \in Pending("generate_feedback"), x \in FeedbackExchanges :
            generate_feedback_resume(p, x)

SpecFeedback == Init /\ [][NextFeedback]_vars


(* Text extraction applied once to a file of any kind *)

ExtractorOutputs == {ExtractorRaises} \cup {Extracted(n) : n \in 0..MaxTextLen}

ExtractText ==
    /\ last = NoResponse
    /\ \E e \in BOOLEAN, p \in ExtractorOutputs, s \in ExtractorOutputs :
          last' = [NoResponse EXCEPT !.op = "extract_text_from_pdf",
                                     !.request = [exists |-> e, content |-> PdfContent(p, s)],
                                     !.body = extract_text_from_pdf(e, PdfContent(p, s))]
    /\ UNCHANGED <<syllabi, quizzes, quiz_results, feedback, files, now, next_id, pending, process>>

NextExtract == ExtractText

SpecExtract == Init /\ [][NextExtract]_vars


(* Two users working side by side, each with requests for every id *)

\* the ids a client has been given: str() of an ObjectId, or no ObjectId
IssuedIds == {s \in IdStrings : s = Malformed \/ s.form = "lower"}

\* AI calls time out, so quizzes and feedback hold the fallback content

Owned(coll, u) == find(coll, LAMBDA d : d.user_id = u)

\* the syllabi are uploaded first; each user keeps at most one document of a
\* kind, one request awaits the AI, and only the second user goes beyond a
\* syllabus
OneOfAKind ==
    /\ \A u \in Users :
          /\ Len(Owned(syllabi, u)) <= 1 /\ Len(Owned(quizzes, u)) <= 1
          /\ Len(Owned(quiz_results, u)) <= 1 /\ Len(Owned(feedback, u)) <= 1
    /\ Owned(quizzes, "u1") = <<>>
    /\ BagCardinality(pending) <= 1

NextIsolation ==
    \/ \E u \in Users :
            /\ next_id <= Cardinality(Users)
            /\ upload_syllabus(u, GoodFile, "uploads", TRUE) /\ OneOfAKind'
    \/ \E u \in Users, s \in IssuedIds : get_syllabus(u, s)
    \/ \E u \in Users : list_syllabi(u)
    \/ \E u \in Users, s \in IssuedIds : delete_syllabus(u, s)
    \/ \E u \in Users, s \in IssuedIds :
            /\ generate_quiz_call(u, [syllabus_id |-> s, num_questions |-> 1,
                                      difficulty |-> "easy"])
            /\ OneOfAKind'
    \/ \E p \in Pending("generate_quiz") :
            generate_quiz_resume(p, Exchange("timeout", NoText)) /\ OneOfAKind'
    \/ \E u \in Users, s \in IssuedIds : get_quiz(u, s)
    \/ \E u \in Users, s \in IssuedIds :
            submit_quiz(u, [quiz_id |-> s, answers |-> <<>>]) /\ OneOfAKind'
    \/ \E u \in Users, s \in IssuedIds : get_quiz_result(u, s)
    \/ \E u \in Users : list_quiz_results(u)
    \/ \E u \in Users, s \in IssuedIds :
            generate_feedback_call(u, [result_id |-> s]) /\ OneOfAKind'
    \/ \E p \in Pending("generate_feedback") :
            generate_feedback_resume(p, Exchange("timeout", NoText)) /\ OneOfAKind'
    \/ \E u \in Users, s \in IssuedIds : get_feedback(u, s)

SpecIsolation == Init /\ [][NextIsolation]_vars

(* Syllabi with quizzes and results, and their deletion *)

NextDelete ==
    \/ \E u \in Users :
            /\ next_id <= 2
            /\ upload_syllabus(u, GoodFile, "uploads", TRUE)
    \/ \E u \in Users, s \in IdStrings :
            /\ pending = EmptyBag /\ Len(quizzes) < 2
            /\ generate_quiz_call(u, [syllabus_id |-> s, num_questions |-> 1,
                                      difficulty |-> "easy"])
    \/ \E p \in Pending("generate_quiz") : generate_quiz_resume(p, Exchange("timeout", NoText))
    \/ \E u \in Users, s \in IssuedIds :
            /\ quiz_results = <<>>
            /\ submit_quiz(u, [quiz_id |-> s, answers |-> <<>>])
    \/ \E u \in Users, s \in IdStrings : delete_syllabus(u, s)

SpecDelete == Init /\ [][NextDelete]_vars

(* Uploads of every kind of file by one user, at most one of them kept *)

\* files neither extractor reads, with no text, with text only the second
\* extractor finds, and with text the first extractor finds
UploadCases ==
    [filename : Filenames, size : {0, MaxUploadBytes, MaxUploadBytes + 1},
     content : {PdfContent(ExtractorRaises, ExtractorRaises),
                PdfContent(Extracted(0), Extracted(0)),
                PdfContent(Extracted(50), Extracted(120)),
                PdfContent(Extracted(51), ExtractorRaises)}]

NextUpload ==
    \E f \in UploadCases, w \in {"uploads", "/tmp/uploads", "none"}, i \in BOOLEAN :
        upload_syllabus("u1", f, w, i) /\ Len(syllabi') <= 1

SpecUpload == Init /\ [][NextUpload]_vars

(* The connection from a cold start, and signing up: the startup hook may  *)
(* or may not run, worker threads obtain the handle for get_current_user,  *)
(* and signups run on the event-loop thread.                               *)

SignupRequests == [email : Emails, password : Passwords, name : {"name"}]

LoginRequests == [email : Emails, password : Passwords]

InitCold ==
    /\ syllabi = <<>>
    /\ quizzes = <<>>
    /\ quiz_results = <<>>
    /\ feedback = <<>>
    /\ files = <<>>
    /\ now = 0
    /\ next_id = 1
    /\ pending = EmptyBag
    /\ last = NoResponse
    /\ users = <<>>
    /\ email_index = FALSE
    /\ client = None
    /\ db = None
    /\ clients = {}
    /\ environ = Unset

NextDatabase ==
    \/ lifespan
    \/ \E t \in Threads : get_database_test(t)
    \/ \E p \in Pending("initialize_database"), raises \in BOOLEAN :
            initialize_database_connect(p, raises)
    \/ \E p \in Pending("initialize_database"), raises \in BOOLEAN :
            initialize_database_indexes(p, raises)
    \/ \E user_data \in SignupRequests, outcome \in InitOutcomes : signup(user_data, outcome)
    \/ \E outcome \in InitOutcomes : health_check(outcome)

SpecDatabase == InitCold /\ [][NextDatabase]_vars

(* Accounts and tokens, with the handle set by the startup hook *)

\* the tokens a client may present: forged or kept ones, and the one the
\* last signup or login returned
PresentedTokens ==
    [sub : Emails \cup {NoSubject}, exp : {0, MaxTime + 1}, key : {"JWT_SECRET_KEY"}]
        \cup {[sub |-> "a@x.io", exp |-> MaxTime + 1, key |-> "forged"]}
        \cup (IF last.op \in {"signup", "login"} /\ last.status = 200
              THEN {last.body.access_token} ELSE {})

Credentials == {NoCredentials} \cup [scheme : {"Bearer"}, credentials : PresentedTokens]

InitAuth ==
    /\ syllabi = <<>>
    /\ quizzes = <<>>
    /\ quiz_results = <<>>
    /\ feedback = <<>>
    /\ files = <<>>
    /\ now = 0
    /\ next_id = 1
    /\ pending = EmptyBag
    /\ last = NoResponse
    /\ users = <<>>
    /\ email_index = TRUE
    /\ client = Started.client
    /\ db = Started.db
    /\ clients = Started.clients
    /\ environ \in {Unset} \cup {Minutes(m) : m \in 0..1}

NextAuth ==
    \/ \E user_data \in SignupRequests : signup(user_data, "ok")
    \/ \E user_credentials \in LoginRequests : login(user_credentials, "ok")
    \/ \E route \in Routes, credentials \in Credentials, bearer_status \in {401, 403} :
            refused(route, credentials, bearer_status)
    \/ \E credentials \in Credentials, bearer_status \in {401, 403} :
            get_current_user_info(credentials, bearer_status)
    \/ \E data \in [sub : Emails], expires_delta \in {None, [seconds |-> 0], [seconds |-> 1], timedelta(1)} :
            IssueToken(data, expires_delta)
    \/ Tick

SpecAuth == InitAuth /\ [][NextAuth]_vars

----------------------------------------------------------------------------
(* Properties of quiz generation, checked under SpecQuiz *)

QuizById(id) == find_one(quizzes, LAMBDA d : d._id = ObjectId(id))

\* last is the response of a quiz generation that went through the AI call
GeneratedQuiz == last.op = "generate_quiz" /\ last.exchange.why # "none"

\* the parsed reply of an exchange whose text is JSON
Reply(x) == json_loads(clean_response(x.text)).value

IsJson(x) == x.why = "ok" /\ ~json_loads(clean_response(x.text)).raises

\* an item the validation must reject: a missing field, an options list
\* that is not 4 long, or a correct answer that is none of the options
BadItem(q) ==
    IF ~({"question", "options", "correct_answer"} \subseteq DOMAIN q) THEN TRUE
    ELSE Len(q.options) # 4 \/ \A k \in 1..Len(q.options) : q.options[k] # q.correct_answer

RejectedReply(x) ==
    /\ IsJson(x)
    /\ \/ Reply(x).t # "array"
       \/ \E i \in 1..Len(Reply(x).items) : BadItem(Reply(x).items[i])

\* question k of a stored quiz is the k-th placeholder for that difficulty
IsPlaceholder(question, k, difficulty) ==
    /\ question.question = FallbackQuestionText(k - 1)
    /\ Len(question.options) = 4
    /\ question.options[1] = ConceptOption(difficulty)
    /\ question.correct_answer = ConceptOption(difficulty)

\* C6: generate_quiz_questions returns exactly num_questions questions for
\* every outcome of the AI call, so the quiz persisted and returned by
\* POST /api/quiz/generate has exactly num_questions questions (stated for
\* the non-negative counts).
C6_ExactCount ==
    (GeneratedQuiz /\ last.status = 200 /\ last.request.num_questions >= 0) =>
        /\ Len(last.body.questions) = last.request.num_questions
        /\ Len(QuizById(last.body.id).questions) = last.request.num_questions

AIFailed(x) == x.why \in GeminiFailures \/ (x.why = "ok" /\ ~IsJson(x)) \/ RejectedReply(x)

----------------------------------------------------------------------------
(* Properties of scoring, checked under SpecSubmit *)

\* the questions of result r's quiz whose submitted answer is the stored
\* correct answer
CorrectlyAnswered(r) ==
    LET quiz == QuizById(r.quiz_id) IN
    {k \in DOMAIN quiz.questions :
        (IF quiz.questions[k].id \in DOMAIN r.answers THEN r.answers[quiz.questions[k].id]
         ELSE "") = quiz.questions[k].correct_answer}

\* last is the response of an accepted submission
Submitted == last.op = "submit_quiz" /\ last.status = 200

ResultById(id) == find_one(quiz_results, LAMBDA d : d._id = ObjectId(id))

\* C1: submit_quiz records total = the number of questions, correct = the
\* number of questions answered with the stored correct answer, and
\* score = 100 * correct / total (0 when total = 0); so 0 <= score <= 100,
\* and score = 100 exactly when total > 0 and every question is correct.
C1_ScoreContract ==
    /\ \A i \in DOMAIN quiz_results :
          LET r == quiz_results[i]
              total == Len(QuizById(r.quiz_id).questions)
              correct == Cardinality(CorrectlyAnswered(r))
          IN /\ r.total_questions = total
             /\ r.correct_answers = correct
             /\ r.score.den > 0
             /\ total > 0 => r.score.num * total = 100 * correct * r.score.den
             /\ total = 0 => r.score.num = 0
             /\ 0 <= r.score.num /\ r.score.num <= 100 * r.score.den
             /\ (r.score.num = 100 * r.score.den) <=> (total > 0 /\ correct = total)
    /\ Submitted =>
          /\ last.body.score = ResultById(last.body.id).score
          /\ last.body.total_questions = ResultById(last.body.id).total_questions
          /\ last.body.correct_answers = ResultById(last.body.id).correct_answers

\* a submission with one of two questions right has been scored
C1_Witness ==
    /\ Submitted
    /\ last.body.total_questions = 2
    /\ last.body.correct_answers = 1
    /\ last.body.score = [num |-> 50, den |-> 1]

\* C2: a question whose id is absent from the submitted answers gets the
\* empty string as its answer and is counted as incorrect, for every quiz
\* generate_quiz can have persisted.
C2_MissingIsIncorrect ==
    \A i \in DOMAIN quiz_results :
        LET r == quiz_results[i]
            quiz == QuizById(r.quiz_id)
            answered == {k \in DOMAIN quiz.questions : quiz.questions[k].id \in DOMAIN r.answers}
        IN /\ \A k \in DOMAIN quiz.questions \ answered :
                 /\ r.detailed_results[k].user_answer = ""
                 /\ ~r.detailed_results[k].is_correct
           /\ r.correct_answers <= Cardinality(answered)

\* C3: detailed_results, stored and returned, has one entry per question of
\* the quiz in the quiz's order; entry k carries question k's id, text,
\* options and correct answer, the submitted answer, and
\* is_correct = (submitted answer = correct answer); answer keys that match
\* no question add no entry.
C3_DetailedResults ==
    /\ \A i \in DOMAIN quiz_results :
          LET r == quiz_results[i]
              quiz == QuizById(r.quiz_id)
          IN /\ Len(r.detailed_results) = Len(quiz.questions)
             /\ \A k \in DOMAIN quiz.questions :
                   LET e == r.detailed_results[k]
                       q == quiz.questions[k]
                   IN /\ e.question_id = q.id
                      /\ e.question = q.question
                      /\ e.options = q.options
                      /\ e.correct_answer = q.correct_answer
                      /\ e.user_answer = (IF q.id \in DOMAIN r.answers THEN r.answers[q.id] ELSE "")
                      /\ e.is_correct = (e.user_answer = e.correct_answer)
    /\ Submitted => last.body.detailed_results = ResultById(last.body.id).detailed_results

\* a submission that answers the second of two questions and carries a key
\* of no question has been scored
C3_Witness ==
    /\ Submitted
    /\ DOMAIN last.body.answers = {"1", "x"}
    /\ Len(last.body.detailed_results) = 2
    /\ last.body.detailed_results[1].user_answer = ""
    /\ last.body.detailed_results[2].user_answer = "a"

----------------------------------------------------------------------------
(* Properties of feedback generation, checked under SpecFeedback *)

\* the stored feedback record that generate_feedback looks up for a request
ExistingFeedback(request) == find_one(feedback, LAMBDA d : d.result_id = request.result_id)

\* the caller's result named by a request
OwnResult(u, request) ==
    find_one(quiz_results, LAMBDA d : d._id = ObjectId(request.result_id) /\ d.user_id = u)

\* the content fields of a feedback record or response body
Content(d) == [f \in AllFields \cup {"result_id", "generated_at"} |-> d[f]]

\* C4: a generate_feedback request by the owner for a result id that already
\* has a stored feedback record answers 200 with that record (same id, same
\* content), inserts no feedback record and starts no AI call.
C4_ExistingReturned ==
    [][\A u \in Users, request \in FeedbackRequests :
          (/\ Found(OwnResult(u, request))
           /\ Found(ExistingFeedback(request))
           /\ generate_feedback_call(u, request))
          => /\ last'.op = "generate_feedback"
             /\ last'.status = 200
             /\ last'.body.id = str(ExistingFeedback(request)._id)
             /\ Content(last'.body) = Content(ExistingFeedback(request))
             /\ feedback' = feedback
             /\ pending' = pending]_vars

\* C5: the feedback collection never holds two records with one result id.
C5_OneFeedbackPerResult ==
    \A i, j \in DOMAIN feedback :
        feedback[i].result_id = feedback[j].result_id => i = j

\* the AI exchange failed, or its output is not JSON, not an object with the
\* six fields, or has a field of the wrong shape
FeedbackAIFailed(x) ==
    \/ ParsedFeedback(x).raises
    \/ ParsedFeedback(x).feedback.t # "object"
    \/ \E f \in AllFields : ParsedFeedback(x).feedback.members[f].type # FieldType[f]

\* C10: a generate_feedback request that reached the AI call never answers
\* with an error because of the AI: when the exchange failed or its output
\* is malformed the response is 200 with the fallback content, and a
\* request that ends in an error response stores no feedback record.
C10_FeedbackFailureAbsorbed ==
    [][\A p \in Pending("generate_feedback"), x \in FeedbackExchanges :
          generate_feedback_resume(p, x)
          => /\ FeedbackAIFailed(x) =>
                    /\ last'.status = 200
                    /\ \A f \in AllFields :
                          last'.body[f] = generate_fallback_feedback(
                              p.quiz_result.score,
                              p.quiz_result.correct_answers,
                              p.quiz_result.total_questions)[f]
             /\ last'.status # 200 => feedback' = feedback]_vars

----------------------------------------------------------------------------
(* Properties of text extraction, checked under SpecExtract *)

Extraction == last.op = "extract_text_from_pdf"

\* C11: on an existing file, a first-extractor text of more than 50
\* characters is returned without running the second extractor; otherwise
\* the second extractor's text is returned when non-empty and extraction
\* raises when it is empty or the second extractor raises, so a
\* first-extractor text of 1 to 50 characters is never returned; on a
\* missing file it raises without running an extractor.
C11_ExtractionFallback ==
    Extraction =>
        LET content == last.request.content
            r == last.body
            substantial == ~content.primary.raises /\ content.primary.len > 50
            usable == ~content.secondary.raises /\ content.secondary.len > 0
        IN /\ ~last.request.exists => r.raises /\ r.ran = <<>>
           /\ last.request.exists /\ substantial =>
                 /\ ~r.raises
                 /\ r.text = [len |-> content.primary.len, by |-> "PyPDF2"]
                 /\ r.ran = <<"PyPDF2">>
           /\ last.request.exists /\ ~substantial /\ usable =>
                 /\ ~r.raises
                 /\ r.text = [len |-> content.secondary.len, by |-> "pdfplumber"]
           /\ last.request.exists /\ ~substantial /\ ~usable => r.raises
           /\ ~r.raises /\ r.text.by = "PyPDF2" => r.text.len > 50
           /\ ~r.raises => r.text.len > 0

\* a file whose first extractor yields 50 characters and whose second
\* extractor yields text has been extracted
C11_Witness ==
    /\ Extraction
    /\ last.request.exists
    /\ last.request.content = PdfContent(Extracted(50), Extracted(7))
    /\ last.body.text = [len |-> 7, by |-> "pdfplumber"]

----------------------------------------------------------------------------
(* Properties of ownership, checked under SpecIsolation *)

RecordOf(coll, s) == find_one(coll, LAMBDA d : d._id = ObjectId(s))

\* s is the id of a record of the collection that another user owns
Foreign(coll, u, s) == Found(RecordOf(coll, s)) /\ RecordOf(coll, s).user_id # u

\* the step ends in a response of the operation to user a
Answers(op, a) == last'.op = op /\ last'.user = a

\* the step answers user a with not-found and changes nothing stored
NotFound(a) ==
    /\ last'.user = a /\ last'.status = 404
    /\ UNCHANGED <<syllabi, quizzes, quiz_results, feedback, files, pending>>

\* the ids listed in a response body
ListedIds(body) == {body[k].id : k \in DOMAIN body}

OwnIds(coll, u) == {str(coll[i]._id) : i \in {j \in DOMAIN coll : coll[j].user_id = u}}

----------------------------------------------------------------------------
(* Properties of the quiz as sent out, checked under SpecQuizRead *)

\* last is a quiz sent to its taker, by generate_quiz or get_quiz
QuizSent == last.op \in {"generate_quiz", "get_quiz"} /\ last.status = 200

\* C13: every stored question keeps its correct_answer and has as id its
\* position "0".."n-1"; the questions in the responses of generate_quiz and
\* get_quiz have the fields id, question and options only, and are the
\* stored questions in order with the same ids.
C13_AnswersWithheld ==
    /\ \A i \in DOMAIN quizzes : \A k \in DOMAIN quizzes[i].questions :
          /\ "correct_answer" \in DOMAIN quizzes[i].questions[k]
          /\ quizzes[i].questions[k].id = ToString(k - 1)
    /\ QuizSent =>
          LET stored == QuizById(last.body.id).questions
              sent == last.body.questions
          IN /\ Found(QuizById(last.body.id))
             /\ Len(sent) = Len(stored)
             /\ \A k \in DOMAIN sent :
                   /\ DOMAIN sent[k] = {"id", "question", "options"}
                   /\ sent[k].id = stored[k].id
                   /\ sent[k].question = stored[k].question
                   /\ sent[k].options = stored[k].options

\* a stored quiz of two questions has been read back
C13_Witness ==
    /\ last.op = "get_quiz" /\ last.status = 200
    /\ Len(last.body.questions) = 2
    /\ last.body.questions[2].id = "1"
    /\ QuizById(last.body.id).questions[2].correct_answer \in
          Range(last.body.questions[2].options)

----------------------------------------------------------------------------
(* Properties of syllabus deletion, checked under SpecDelete *)

\* the documents of a sequence other than those in the set
Except(coll, gone) == SelectSeq(coll, LAMBDA d : d \notin gone)

\* C14: a successful delete_syllabus removes the syllabus record, every quiz
\* generated from that syllabus and the stored file, and leaves the quiz
\* results, the feedback, the other syllabi and the quizzes of the other
\* syllabi as they were.
C14_DeleteCascade ==
    [][\A u \in Users, s \in IdStrings :
          (/\ Answers("delete_syllabus", u) /\ last'.status = 200
           /\ delete_syllabus(u, s))
          => LET syllabus == RecordOf(syllabi, s)
                 its_quizzes == {q \in Range(quizzes) :
                                    ObjectId(q.syllabus_id) = syllabus._id}
             IN /\ ~Found(RecordOf(syllabi', s))
                /\ \A q \in its_quizzes : q \notin Range(quizzes')
                /\ syllabus.file_path \notin DOMAIN files'
                /\ quiz_results' = quiz_results
                /\ feedback' = feedback
                /\ syllabi' = Except(syllabi, {syllabus})
                /\ Except(quizzes', its_quizzes) = Except(quizzes, its_quizzes)]_vars

----------------------------------------------------------------------------
(* Properties of upload, checked under SpecUpload *)

\* the upload is turned away before anything is written
Rejected(file) == lower(file.filename.ext) # ".pdf" \/ file.size > MaxUploadBytes

\* C15: an upload that ends in an error persists no syllabus record; when it
\* was rejected for its filename or size the stored files are as before, and
\* when the file had been written (extraction raised, the text was empty or
\* the insert failed) the file is no longer stored.
C15_UploadCleanup ==
    [][last'.op = "upload_syllabus" /\ last'.status # 200 =>
          LET file == last'.request.file
              file_path == StoragePath(last'.request.writable, now, file.filename)
          IN /\ syllabi' = syllabi
             /\ next_id' = next_id
             /\ Rejected(file) => files' = files
             /\ ~Rejected(file) => file_path \notin DOMAIN files']_vars

\* an upload has failed at the insert, after its file was written
C15_Witness ==
    /\ last.op = "upload_syllabus" /\ last.status = 500
    /\ last.body.detail = "Failed to process file: insert_one"
    /\ ~Rejected(last.request.file)
    /\ syllabi = <<>> /\ files = <<>>

\* C16: every persisted syllabus holds extracted text that passes
\* validate_pdf_content (at least 100 characters, 80% printable, 50 words),
\* and so is not empty.
C16_ValidatedBeforePersist ==
    \A i \in DOMAIN syllabi :
        /\ validate_pdf_content(syllabi[i].extracted_text)
        /\ syllabi[i].extracted_text.len > 0

----------------------------------------------------------------------------
(* Accounts *)

DistinctEmails(us) == \A i, j \in DOMAIN us : us[i].email = us[j].email => i = j

C18_TokenExpiry ==
    [][now' = now =>
        /\ last'.op = "create_access_token" =>
              last'.body.exp = IF last'.request.expires_delta = None
                               THEN now + timedelta(15).seconds
                               ELSE now + last'.request.expires_delta.seconds
        /\ last'.op \in {"signup", "login"} /\ last'.status = 200 =>
              last'.body.access_token.exp = now + timedelta(ExpireMinutes).seconds]_vars

\* C19: a request that an authenticated route refuses for its token, and a
\* login that is refused, is answered 401 and changes no stored state.
C19_Unauthorized401 ==
    [][last'.op \in Routes \cup {"login"} /\ last'.status # 200 =>
        /\ last'.status = 401
        /\ users' = users]_vars

\* C20: at most one MongoClient is ever constructed, and the handle, once
\* set, is the one every caller receives.
C20_OneClient ==
    /\ Cardinality(clients) <= 1
    /\ last.op = "get_database" /\ last.status = 200 => last.body.db = analyquiz([id |-> 1])

\* C21: GET /health always answers, and answers "connected" only when an
\* initialization of the database has completed (or one is still running on
\* a worker thread); after an initialize_database that raised, the handle is
\* unset.
C21_HealthAfterFailure ==
    /\ last.op = "health_check" =>
          /\ last.status = 200
          /\ last.body.database = "connected" =>
                email_index \/ Pending("initialize_database") # {}
    /\ db # None => email_index \/ Pending("initialize_database") # {}

\* C22: an upload whose text extraction raises, or yields no text, is
\* answered 400; 500 is kept for other failures, and the handler's error
\* path raises nothing but its own HTTPException, also when the failure came
\* before the storage path was chosen.
C22_ExtractionErrors400 ==
    last.op = "upload_syllabus" /\ last.status # 200 /\ ~Rejected(last.request.file) =>
        LET ex == extract_text_from_pdf(TRUE, last.request.file.content)
            stored == last.request.writable # "none"
        IN /\ stored /\ ex.raises => last.status = 400
           /\ stored /\ ~ex.raises /\ ex.text.len = 0 => last.status = 400
           /\ last.status = 500 => last.body.detail # "Internal Server Error"

----------------------------------------------------------------------------
(* Deletion against generation in flight, checked under SpecIsolation, whose *)
(* requests name ids in the one form the service prints.                     *)

\* C23: once no request is in flight, every quiz references a syllabus that
\* is still stored, however the deletions interleave with the generations
\* suspended at the AI call.
C23_NoOrphanQuiz ==
    pending = EmptyBag =>
        \A i \in DOMAIN quizzes :
            \E j \in DOMAIN syllabi : syllabi[j]._id = ObjectId(quizzes[i].syllabus_id)

----------------------------------------------------------------------------
(* Storage paths, checked under SpecDelete, where two users upload a file of *)
(* the same name *)

\* C24: distinct syllabus records never share a storage path, and the file
\* of every record is stored, whatever uploads and deletions came before.
C24_DistinctPaths ==
    /\ \A i, j \in DOMAIN syllabi :
            syllabi[i].file_path = syllabi[j].file_path => i = j
    /\ \A i \in DOMAIN syllabi : syllabi[i].file_path \in DOMAIN files

====
